---- MODULE Spec2Model ----
(***************************************************************************)
(* Segment classification engine of the Magnetica backend API              *)
(* (EnterpriseInformationLayerService in src/env.template).                *)
(*                                                                         *)
(* JavaScript values are modelled as records [t, n, d]: t is the kind of   *)
(* the value; a finite number is the exact rational n/d in lowest terms    *)
(* (IEEE rounding and the sign of zero are abstracted away, NaN and the    *)
(* two infinities are kept because the code's checks treat them apart).    *)
(***************************************************************************)
EXTENDS Integers, Sequences, FiniteSets, TLC

VARIABLES mohdConfig, op, signals, segmentArg, probabilitiesArg, status, classification, error, trace,
          value, segment,
          angle,
          given,
          generated,
          request,
          passed,
          responses,
          earlier,
          raises,
          heapTop,
          calls

vars == <<mohdConfig, op, signals, segmentArg, probabilitiesArg, status, classification, error, trace,
          value, segment,
          angle,
          given,
          generated,
          request,
          passed,
          responses,
          earlier,
          raises,
          heapTop,
          calls>>

(***************************************************************************)
(* JavaScript values and the arithmetic the classifier uses                *)
(***************************************************************************)
JsVal(t, n, d) == [t |-> t, n |-> n, d |-> d]

Undefined == JsVal("undefined", 0, 1)
Null == JsVal("null", 0, 1)
Str == JsVal("string", 0, 1)
Obj == JsVal("object", 0, 1)
True == JsVal("boolean", 1, 1)
False == JsVal("boolean", 0, 1)
NaN == JsVal("nan", 0, 1)
PosInf == JsVal("pinf", 0, 1)
NegInf == JsVal("ninf", 0, 1)

Abs(x) == IF x < 0 THEN -x ELSE x

RECURSIVE GCD(_, _)
GCD(a, b) == IF b = 0 THEN a ELSE GCD(b, a % b)

\* the finite number n/d (d > 0), in lowest terms
Num(n, d) == LET g == GCD(Abs(n), d) IN JsVal("fin", n \div g, d \div g)

TypeOf(x) ==
  CASE x.t \in {"fin", "nan", "pinf", "ninf"} -> "number"
    [] x.t = "null" -> "object"
    [] OTHER -> x.t

IsNaN(x) == x.t = "nan"

Sign(x) ==
  CASE x.t = "pinf" -> 1
    [] x.t = "ninf" -> -1
    [] OTHER -> IF x.n > 0 THEN 1 ELSE IF x.n < 0 THEN -1 ELSE 0

Truthy(x) ==
  CASE x.t \in {"undefined", "null", "nan"} -> FALSE
    [] x.t \in {"boolean", "fin"} -> x.n # 0
    [] OTHER -> TRUE

JsMul(a, b) ==
  IF IsNaN(a) \/ IsNaN(b) THEN NaN
  ELSE IF a.t = "fin" /\ b.t = "fin" THEN Num(a.n * b.n, a.d * b.d)
  ELSE IF Sign(a) * Sign(b) = 0 THEN NaN
  ELSE IF Sign(a) * Sign(b) > 0 THEN PosInf ELSE NegInf

JsAdd(a, b) ==
  IF IsNaN(a) \/ IsNaN(b) THEN NaN
  ELSE IF a.t = "fin" /\ b.t = "fin" THEN Num(a.n * b.d + b.n * a.d, a.d * b.d)
  ELSE IF a.t = "fin" THEN b
  ELSE IF b.t = "fin" THEN a
  ELSE IF a.t = b.t THEN a ELSE NaN

JsDiv(a, b) ==
  IF IsNaN(a) \/ IsNaN(b) THEN NaN
  ELSE IF b.t = "fin" /\ b.n # 0 THEN JsMul(a, Num(Sign(b) * b.d, Abs(b.n)))
  ELSE IF b.t = "fin" THEN (IF Sign(a) = 0 THEN NaN ELSE IF Sign(a) > 0 THEN PosInf ELSE NegInf)
  ELSE IF a.t = "fin" THEN Num(0, 1) ELSE NaN

JsLt(a, b) ==
  /\ ~IsNaN(a)
  /\ ~IsNaN(b)
  /\ \/ a.t = "ninf" /\ b.t # "ninf"
     \/ a.t = "fin" /\ b.t = "pinf"
     \/ a.t = "fin" /\ b.t = "fin" /\ a.n * b.d < b.n * a.d

JsGt(a, b) == JsLt(b, a)

JsGe(a, b) == ~IsNaN(a) /\ ~IsNaN(b) /\ ~JsLt(a, b)

MathMin(a, b) == IF IsNaN(a) \/ IsNaN(b) THEN NaN ELSE IF JsLt(b, a) THEN b ELSE a

MathMax(a, b) == IF IsNaN(a) \/ IsNaN(b) THEN NaN ELSE IF JsLt(a, b) THEN b ELSE a

\* value of obj[key] for an object held as its sequence of entries [k, v]
Get(obj, key) ==
  IF \E i \in 1..Len(obj) : obj[i].k = key
  THEN obj[CHOOSE i \in 1..Len(obj) : obj[i].k = key].v
  ELSE Undefined

(***************************************************************************)
(* The static catalog                                                      *)
(***************************************************************************)
loadMOHDConfiguration ==
  [customerSegments |->
     [italian_heritage_advocate |->
        [id |-> "italian_heritage_advocate",
         thresholds |-> [engagement |-> Num(7, 10), confidence |-> Num(75, 100), priority |-> Num(8, 10)]],
      luxury_project_planner |->
        [id |-> "luxury_project_planner",
         thresholds |-> [engagement |-> Num(8, 10), confidence |-> Num(85, 100), priority |-> Num(9, 10)]],
      international_minimalist |->
        [id |-> "international_minimalist",
         thresholds |-> [engagement |-> Num(6, 10), confidence |-> Num(7, 10), priority |-> Num(65, 100)]],
      hospitality_professional |->
        [id |-> "hospitality_professional",
         thresholds |-> [engagement |-> Num(75, 100), confidence |-> Num(8, 10), priority |-> Num(85, 100)]]],
   contentAngles |->
     <<"italian_heritage", "artisanal_excellence", "project_completion", "contemporary_integration">>]

requiredSignals ==
  <<"designer_story_engagement", "craftsmanship_content_focus", "heritage_content_time",
    "multi_room_navigation", "complete_project_interest", "budget_premium_indicators",
    "clean_aesthetic_preference", "integration_content_focus", "contemporary_browsing_pattern",
    "commercial_scale_indicators", "durability_specs_interest", "technical_documentation_focus",
    "session_duration", "page_depth", "product_interaction_quality", "return_visitor_pattern">>

SignalKeys == {requiredSignals[i] : i \in 1..Len(requiredSignals)}

booleanSignals == {"multi_room_navigation", "return_visitor_pattern"}

(***************************************************************************)
(* The classifier                                                          *)
(***************************************************************************)
\* clamp01 without the upper bound
clampFromBelow(x) == MathMax(x, Num(0, 1))

clamp01(x) == MathMin(MathMax(x, Num(0, 1)), Num(1, 1))

\* heritageScore with the first two weights exchanged
heritageScoreSwapped(sig) ==
  JsAdd(JsAdd(JsMul(sig["designer_story_engagement"], Num(3, 10)),
              JsMul(sig["craftsmanship_content_focus"], Num(4, 10))),
        JsMul(MathMin(JsDiv(sig["heritage_content_time"], Num(120, 1)), Num(1, 1)), Num(3, 10)))

heritageScore(sig) ==
  JsAdd(JsAdd(JsMul(sig["designer_story_engagement"], Num(4, 10)),
              JsMul(sig["craftsmanship_content_focus"], Num(3, 10))),
        JsMul(MathMin(JsDiv(sig["heritage_content_time"], Num(120, 1)), Num(1, 1)), Num(3, 10)))

\* plannerScore with the weight of budget_premium_indicators at 0.2
plannerScoreLight(sig) ==
  JsAdd(JsAdd(JsMul(IF Truthy(sig["multi_room_navigation"]) THEN Num(1, 1) ELSE Num(0, 1), Num(35, 100)),
              JsMul(sig["complete_project_interest"], Num(35, 100))),
        JsMul(sig["budget_premium_indicators"], Num(2, 10)))

plannerScore(sig) ==
  JsAdd(JsAdd(JsMul(IF Truthy(sig["multi_room_navigation"]) THEN Num(1, 1) ELSE Num(0, 1), Num(35, 100)),
              JsMul(sig["complete_project_interest"], Num(35, 100))),
        JsMul(sig["budget_premium_indicators"], Num(3, 10)))

minimalistScore(sig) ==
  JsAdd(JsAdd(JsMul(sig["clean_aesthetic_preference"], Num(4, 10)),
              JsMul(sig["integration_content_focus"], Num(35, 100))),
        JsMul(sig["contemporary_browsing_pattern"], Num(25, 100)))

hospitalityScore(sig) ==
  JsAdd(JsAdd(JsMul(sig["commercial_scale_indicators"], Num(4, 10)),
              JsMul(sig["durability_specs_interest"], Num(3, 10))),
        JsMul(sig["technical_documentation_focus"], Num(3, 10)))

\* the returned object, as its entries in the order the literal declares them
calculateSegmentProbabilities(sig) ==
  << [k |-> "italian_heritage_advocate", v |-> clamp01(heritageScore(sig))],
     [k |-> "luxury_project_planner", v |-> clamp01(plannerScore(sig))],
     [k |-> "international_minimalist", v |-> clamp01(minimalistScore(sig))],
     [k |-> "hospitality_professional", v |-> clamp01(hospitalityScore(sig))] >>

\* takesOver with >= in place of >: the last of several equal segments wins
takesOverOnTie(segments, entry, maxScore) ==
  /\ JsGe(entry.v, segments[entry.k].thresholds.confidence)
  /\ JsGe(entry.v, maxScore)

\* takesOver testing the segment's engagement threshold instead of its confidence threshold
takesOverEngagement(segments, entry, maxScore) ==
  /\ JsGe(entry.v, segments[entry.k].thresholds.engagement)
  /\ JsGt(entry.v, maxScore)

\* takesOver without the threshold test: the best-scoring segment always wins
takesOverAnyScore(segments, entry, maxScore) == JsGt(entry.v, maxScore)

\* the test of the loop body: the entry replaces the best segment seen so far
takesOver(segments, entry, maxScore) ==
  /\ JsGe(entry.v, segments[entry.k].thresholds.confidence)
  /\ JsGt(entry.v, maxScore)

RECURSIVE selectLoop(_, _, _, _, _)
selectLoop(segments, entries, i, maxScore, primarySegment) ==
  IF i > Len(entries) THEN primarySegment
  ELSE IF takesOver(segments, entries[i], maxScore)
       THEN selectLoop(segments, entries, i + 1, entries[i].v, entries[i].k)
       ELSE selectLoop(segments, entries, i + 1, maxScore, primarySegment)

\* selectPrimarySegment starting from the first segment of the mapping
selectPrimarySegmentFirst(config, probabilities) ==
  selectLoop(config.customerSegments, probabilities, 1, Num(0, 1), probabilities[1].k)

selectPrimarySegment(config, probabilities) ==
  selectLoop(config.customerSegments, probabilities, 1, Num(0, 1), "international_minimalist")

\* the bound of a factor taken as 1
factorThresholdOne == Num(1, 1)

\* the bound of a factor taken as one half
factorThresholdHalf == Num(5, 10)

factorThreshold == Num(6, 10)

factorIf(cond, text) == IF cond THEN <<text>> ELSE <<>>

identifyClassificationFactors(sig, primarySegment) ==
  CASE primarySegment = "italian_heritage_advocate" ->
         factorIf(JsGt(sig["designer_story_engagement"], factorThreshold), "High designer story engagement")
         \o factorIf(JsGt(sig["craftsmanship_content_focus"], factorThreshold), "Strong craftsmanship interest")
         \o factorIf(JsGt(sig["heritage_content_time"], Num(90, 1)), "Extended heritage content consumption")
    [] primarySegment = "luxury_project_planner" ->
         factorIf(Truthy(sig["multi_room_navigation"]), "Multi-room project exploration")
         \o factorIf(JsGt(sig["complete_project_interest"], factorThreshold), "Complete project interest signals")
         \o factorIf(JsGt(sig["budget_premium_indicators"], factorThreshold), "Premium budget indicators")
    [] primarySegment = "international_minimalist" ->
         factorIf(JsGt(sig["clean_aesthetic_preference"], factorThreshold), "Clean aesthetic preference")
         \o factorIf(JsGt(sig["integration_content_focus"], factorThreshold), "Integration-focused browsing")
         \o factorIf(JsGt(sig["contemporary_browsing_pattern"], factorThreshold), "Contemporary design pattern")
    [] primarySegment = "hospitality_professional" ->
         factorIf(JsGt(sig["commercial_scale_indicators"], factorThreshold), "Commercial scale indicators")
         \o factorIf(JsGt(sig["durability_specs_interest"], factorThreshold), "Technical specification focus")
         \o factorIf(JsGt(sig["technical_documentation_focus"], factorThreshold), "Professional documentation interest")
    [] OTHER -> <<>>

\* selectContentAngle with the planner's and the hospitality professional's angles exchanged
selectContentAngleExchanged(primarySegment) ==
  CASE primarySegment = "italian_heritage_advocate" -> "italian_heritage"
    [] primarySegment = "luxury_project_planner" -> "artisanal_excellence"
    [] primarySegment = "international_minimalist" -> "contemporary_integration"
    [] primarySegment = "hospitality_professional" -> "project_completion"
    [] OTHER -> "contemporary_integration"

selectContentAngle(primarySegment) ==
  CASE primarySegment = "italian_heritage_advocate" -> "italian_heritage"
    [] primarySegment = "luxury_project_planner" -> "project_completion"
    [] primarySegment = "international_minimalist" -> "contemporary_integration"
    [] primarySegment = "hospitality_professional" -> "artisanal_excellence"
    [] OTHER -> "contemporary_integration"

baseScore(sig) ==
  JsAdd(JsAdd(JsAdd(JsMul(MathMin(JsDiv(sig["session_duration"], Num(600, 1)), Num(1, 1)), Num(3, 10)),
                    JsMul(MathMin(JsDiv(sig["page_depth"], Num(10, 1)), Num(1, 1)), Num(2, 10))),
              JsMul(sig["product_interaction_quality"], Num(3, 10))),
        IF Truthy(sig["return_visitor_pattern"]) THEN Num(2, 10) ELSE Num(0, 1))

\* segmentMultiplier without the table: every segment gets the default
segmentMultiplierDefault(primarySegment) == Num(1, 1)

segmentMultiplier(primarySegment) ==
  CASE primarySegment = "luxury_project_planner" -> Num(15, 10)
    [] primarySegment = "hospitality_professional" -> Num(13, 10)
    [] primarySegment = "italian_heritage_advocate" -> Num(11, 10)
    [] primarySegment = "international_minimalist" -> Num(8, 10)
    [] OTHER -> Num(1, 1)

calculateConsultationReadiness(sig, primarySegment) ==
  clamp01(JsMul(baseScore(sig), segmentMultiplier(primarySegment)))

(***************************************************************************)
(* validateSegmentClassification: the checks, then the scoring steps.      *)
(* The outcome records what the caller gets (a classification or an error) *)
(* and the steps of the body that ran, in order.                           *)
(***************************************************************************)
\* isMissing testing for undefined alone
isMissingUndefined(sig, k) == sig[k] = Undefined

isMissing(sig, k) == sig[k] = Undefined \/ sig[k] = Null

missingSignals(sig) == SelectSeq(requiredSignals, LAMBDA k : isMissing(sig, k))

\* the type check of one signal of the loop: TRUE when it throws
typeCheckFails(sig, k) ==
  IF k \in booleanSignals
  THEN TypeOf(sig[k]) # "boolean" /\ TypeOf(sig[k]) # "number"
  ELSE TypeOf(sig[k]) # "number" \/ IsNaN(sig[k])

malformedSignals(sig) == SelectSeq(requiredSignals, LAMBDA k : typeCheckFails(sig, k))

MissingError(keys) == [message |-> "Missing required signals", keys |-> keys, got |-> ""]

TypeError(k, v) ==
  [message |-> IF k \in booleanSignals THEN "must be a boolean or number" ELSE "must be a number",
   keys |-> <<k>>, got |-> TypeOf(v)]

ConfidenceError ==
  [message |-> "Classification confidence calculation failed", keys |-> <<>>, got |-> ""]

Thrown(err, steps) ==
  [status |-> "thrown", classification |-> <<>>, error |-> <<err>>, trace |-> steps]

Returned(c, steps) ==
  [status |-> "returned", classification |-> <<c>>, error |-> <<>>, trace |-> steps]

RECURSIVE greatest(_, _)
greatest(probabilities, i) ==
  IF i = 1 THEN probabilities[1].v ELSE MathMax(greatest(probabilities, i - 1), probabilities[i].v)

\* confidenceOf reporting the best probability instead of the primary segment's own
confidenceOfBest(probabilities, primarySegment) == greatest(probabilities, Len(probabilities))

confidenceOf(probabilities, primarySegment) == Get(probabilities, primarySegment)

confidenceCheckFails(confidence) ==
  confidence = Null \/ confidence = Undefined \/ IsNaN(confidence)

validateSegmentClassification(config, sig) ==
  IF Len(missingSignals(sig)) > 0
  THEN Thrown(MissingError(missingSignals(sig)), <<"missingCheck">>)
  ELSE IF Len(malformedSignals(sig)) > 0
  THEN Thrown(TypeError(Head(malformedSignals(sig)), sig[Head(malformedSignals(sig))]),
              <<"missingCheck", "typeCheck">>)
  ELSE
    LET probabilities == calculateSegmentProbabilities(sig)
        primarySegment == selectPrimarySegment(config, probabilities)
        confidence == confidenceOf(probabilities, primarySegment)
    IN IF confidenceCheckFails(confidence)
       THEN Thrown(ConfidenceError,
                   <<"missingCheck", "typeCheck", "calculateSegmentProbabilities",
                     "selectPrimarySegment", "confidenceCheck">>)
       ELSE Returned(
              [primary_segment |-> primarySegment,
               confidence_score |-> confidence,
               segment_probabilities |-> probabilities,
               classification_factors |-> identifyClassificationFactors(sig, primarySegment),
               recommended_content_angle |-> selectContentAngle(primarySegment),
               consultation_readiness_score |-> calculateConsultationReadiness(sig, primarySegment)],
              <<"missingCheck", "typeCheck", "calculateSegmentProbabilities",
                "selectPrimarySegment", "confidenceCheck", "identifyClassificationFactors",
                "selectContentAngle", "calculateConsultationReadiness">>)

\* the catch of calculateConsultationReadiness answering 0
consultationReadinessStepZero(sig, primarySegment, raised) ==
  IF raised THEN Num(0, 1) ELSE calculateConsultationReadiness(sig, primarySegment)

\* calculateConsultationReadiness with its catch: when the try block raises (a property of
\* signals whose accessor throws on the read made there), the warning is logged and 0.5 returned
consultationReadinessStep(sig, primarySegment, raised) ==
  IF raised THEN Num(5, 10) ELSE calculateConsultationReadiness(sig, primarySegment)

\* validateSegmentClassification on a vector whose reads raise inside the try block of
\* calculateConsultationReadiness and nowhere before
validateSegmentClassificationRaising(config, sig) ==
  LET out == validateSegmentClassification(config, sig)
  IN  IF out.status = "returned"
      THEN Returned([out.classification[1] EXCEPT
                       !.consultation_readiness_score =
                          consultationReadinessStep(sig, out.classification[1].primary_segment, TRUE)],
                    out.trace)
      ELSE out

(***************************************************************************)
(* Inputs of the calls: signal vectors built from per-segment profiles     *)
(* (finite values, inside and outside [0,1]), and vectors with missing or  *)
(* malformed keys.                                                         *)
(***************************************************************************)
(* generateDemoSignals: two templates built from draws of Math.random()    *)
(***************************************************************************)
\* lo + Math.random() * span
drawn(lo, d, span) == JsAdd(lo, JsMul(d, span))

\* Math.random() > bound, a boolean
drawnFlag(d, bound) == IF JsGt(d, bound) THEN True ELSE False

\* Math.floor(Math.random() * length) + 1, the position in Object.keys(signalTemplates)
drawnIndex(d, length) == ((d.n * length) \div d.d) + 1

heritageTemplate(rnd) ==
  [designer_story_engagement |-> drawn(Num(8, 10), rnd.h, Num(2, 10)),
   craftsmanship_content_focus |-> drawn(Num(7, 10), rnd.h, Num(3, 10)),
   heritage_content_time |-> drawn(Num(90, 1), rnd.h, Num(120, 1)),
   multi_room_navigation |-> drawnFlag(rnd.f1, Num(7, 10)),
   complete_project_interest |-> drawn(Num(2, 10), rnd.p, Num(3, 10)),
   budget_premium_indicators |-> drawn(Num(4, 10), rnd.p, Num(3, 10)),
   clean_aesthetic_preference |-> drawn(Num(3, 10), rnd.o, Num(3, 10)),
   integration_content_focus |-> drawn(Num(2, 10), rnd.o, Num(3, 10)),
   contemporary_browsing_pattern |-> drawn(Num(1, 10), rnd.o, Num(3, 10)),
   commercial_scale_indicators |-> drawn(Num(1, 10), rnd.o, Num(2, 10)),
   durability_specs_interest |-> drawn(Num(1, 10), rnd.o, Num(2, 10)),
   technical_documentation_focus |-> drawn(Num(1, 10), rnd.o, Num(2, 10)),
   session_duration |-> drawn(Num(200, 1), rnd.r, Num(400, 1)),
   page_depth |-> drawn(Num(5, 1), rnd.r, Num(10, 1)),
   product_interaction_quality |-> drawn(Num(6, 10), rnd.r, Num(4, 10)),
   return_visitor_pattern |-> drawnFlag(rnd.f2, Num(5, 10))]

plannerTemplate(rnd) ==
  [designer_story_engagement |-> drawn(Num(1, 10), rnd.h, Num(3, 10)),
   craftsmanship_content_focus |-> drawn(Num(2, 10), rnd.h, Num(3, 10)),
   heritage_content_time |-> drawn(Num(10, 1), rnd.h, Num(60, 1)),
   multi_room_navigation |-> True,
   complete_project_interest |-> drawn(Num(8, 10), rnd.p, Num(2, 10)),
   budget_premium_indicators |-> drawn(Num(7, 10), rnd.p, Num(3, 10)),
   clean_aesthetic_preference |-> drawn(Num(4, 10), rnd.o, Num(4, 10)),
   integration_content_focus |-> drawn(Num(3, 10), rnd.o, Num(4, 10)),
   contemporary_browsing_pattern |-> drawn(Num(5, 10), rnd.o, Num(3, 10)),
   commercial_scale_indicators |-> drawn(Num(1, 10), rnd.o, Num(3, 10)),
   durability_specs_interest |-> drawn(Num(2, 10), rnd.o, Num(3, 10)),
   technical_documentation_focus |-> drawn(Num(1, 10), rnd.o, Num(3, 10)),
   session_duration |-> drawn(Num(400, 1), rnd.r, Num(400, 1)),
   page_depth |-> drawn(Num(8, 1), rnd.r, Num(12, 1)),
   product_interaction_quality |-> drawn(Num(8, 10), rnd.r, Num(2, 10)),
   return_visitor_pattern |-> drawnFlag(rnd.f2, Num(3, 10))]

templateKeys == <<"heritage", "planner">>

generateDemoSignals(segmentType, rnd) ==
  LET type == IF segmentType = "random" THEN templateKeys[drawnIndex(rnd.pick, Len(templateKeys))]
              ELSE segmentType
  IN  CASE type = "heritage" -> heritageTemplate(rnd)
        [] type = "planner" -> plannerTemplate(rnd)
        [] OTHER -> heritageTemplate(rnd)

(***************************************************************************)
(* POST /api/v1/segment/classify: the middleware validateInput, then the   *)
(* handler.  A body is [isObject, signals, demo_mode]; signals is absent,  *)
(* a value that is not an object, or an object of signal keys (a key       *)
(* holding Undefined is a key the object does not have); demo_mode "" is   *)
(* an absent demo_mode.                                                    *)
(***************************************************************************)
EmptyObject == [k \in SignalKeys |-> Undefined]

NoSignals == [kind |-> "absent", scalar |-> Undefined, vector |-> EmptyObject]
ScalarSignals(v) == [kind |-> "scalar", scalar |-> v, vector |-> EmptyObject]
ObjectSignals(vec) == [kind |-> "object", scalar |-> Obj, vector |-> vec]

Body(s, mode) == [isObject |-> TRUE, signals |-> s, demo_mode |-> mode]
NoBody == [isObject |-> FALSE, signals |-> NoSignals, demo_mode |-> ""]

ErrorResponse(code, err) == [code |-> code, success |-> FALSE, error |-> <<err>>, data |-> <<>>]
SuccessResponse(payload) == [code |-> 200, success |-> TRUE, error |-> <<>>, data |-> <<payload>>]

BodyRequiredError ==
  [message |-> "Request body is required and must be valid JSON", keys |-> <<>>, got |-> ""]
SignalsObjectError ==
  [message |-> "Signals must be an object with numeric values", keys |-> <<>>, got |-> ""]
DemoModeError ==
  [message |-> "demo_mode must be one of: heritage, planner, random", keys |-> <<>>, got |-> ""]
NumericValueError(k, v) == [message |-> "must be a numeric value", keys |-> <<k>>, got |-> TypeOf(v)]
RangeError(k, v) == [message |-> "must be between 0 and 1", keys |-> <<k>>, got |-> v.t]
NoSignalsError ==
  [message |-> "No signals provided and demo_mode not specified", keys |-> <<>>, got |-> ""]

demoModes == {"heritage", "planner", "random"}

allowedLargeValues == {"session_duration", "page_depth", "heritage_content_time"}

\* the first test of the loop over Object.entries(body.signals)
notNumeric(v) == TypeOf(v) = "string" \/ v = Null

\* the second test of the loop: the range test and, inside it, the rejection
outOfRange(k, v) ==
  /\ TypeOf(v) = "number"
  /\ (IsNaN(v) \/ JsLt(v, Num(0, 1)) \/ JsGt(v, Num(1, 1)))
  /\ k \notin allowedLargeValues
  /\ JsGt(v, Num(1, 1))

\* the keys the object has, in the order of its entries
entries(vec) == SelectSeq(requiredSignals, LAMBDA k : vec[k] # Undefined)

rejectedEntries(vec) ==
  SelectSeq(entries(vec), LAMBDA k : notNumeric(vec[k]) \/ outOfRange(k, vec[k]))

Rejected(err) == [next |-> FALSE, response |-> <<ErrorResponse(400, err)>>]

validateInput(body) ==
  IF ~body.isObject THEN Rejected(BodyRequiredError)
  ELSE IF Truthy(body.signals.scalar) /\ TypeOf(body.signals.scalar) # "object"
  THEN Rejected(SignalsObjectError)
  ELSE IF body.demo_mode # "" /\ body.demo_mode \notin demoModes THEN Rejected(DemoModeError)
  ELSE IF Truthy(body.signals.scalar) /\ Len(rejectedEntries(body.signals.vector)) > 0
  THEN LET k == Head(rejectedEntries(body.signals.vector))
           v == body.signals.vector[k]
       IN  Rejected(IF notNumeric(v) THEN NumericValueError(k, v) ELSE RangeError(k, v))
  ELSE [next |-> TRUE, response |-> <<>>]

\* testSignals taking the signals of the body whenever the body has them
testSignalsOfBody(body, demo) ==
  IF Truthy(body.signals.scalar) THEN body.signals
  ELSE IF body.demo_mode # "" THEN ObjectSignals(demo[1])
  ELSE body.signals

\* let testSignals = signals; if (demo_mode) testSignals = the vector generated
testSignalsOf(body, demo) ==
  IF body.demo_mode # "" THEN ObjectSignals(demo[1]) ELSE body.signals

\* the handler, reached after next(): what it classified, what the classifier did, what it sent
classifyHandler(config, body, rnd) ==
  LET demo == IF body.demo_mode # "" THEN <<generateDemoSignals(body.demo_mode, rnd)>> ELSE <<>>
      testSignals == testSignalsOf(body, demo)
  IN  IF ~Truthy(testSignals.scalar)
      THEN [called |-> FALSE, generated |-> demo, signals |-> EmptyObject,
            out |-> [status |-> "none", classification |-> <<>>, error |-> <<>>, trace |-> <<>>],
            responses |-> <<ErrorResponse(400, NoSignalsError)>>]
      ELSE LET out == validateSegmentClassification(config, testSignals.vector)
           IN  [called |-> TRUE, generated |-> demo, signals |-> testSignals.vector, out |-> out,
                responses |->
                  IF out.status = "returned"
                  THEN <<SuccessResponse([classification |-> out.classification[1],
                                          signals_used |-> testSignals.vector])>>
                  ELSE <<ErrorResponse(400, out.error[1])>>]

(***************************************************************************)
MaxMissing == 2
MaxMalformed == 2

N0 == Num(0, 1)
N1 == Num(1, 1)

\* <<designer_story_engagement, craftsmanship_content_focus, heritage_content_time>>
HeritageProfiles ==
  { <<N0, N0, N0>>, <<N1, N0, N0>>, <<N0, N1, N0>>, <<N0, N0, Num(120, 1)>>,
    <<N1, N1, Num(240, 1)>>, <<N1, N1, Num(20, 1)>>, <<N1, N1, N0>>, <<N1, N1, Num(60, 1)>>,
    <<Num(-1, 1), N0, Num(60, 1)>>, <<Num(2, 1), Num(2, 1), Num(1000, 1)>> }

\* <<multi_room_navigation, complete_project_interest, budget_premium_indicators>>
PlannerProfiles ==
  { <<False, N0, N0>>, <<True, N0, N0>>, <<False, N1, N0>>, <<N0, N0, N1>>,
    <<True, N1, N1>>, <<True, N1, Num(1, 2)>>, <<Num(2, 1), N1, Num(1, 2)>>, <<NaN, N1, N1>>,
    <<True, Num(-1, 1), N0>>, <<True, Num(2, 1), Num(2, 1)>> }

\* <<clean_aesthetic_preference, integration_content_focus, contemporary_browsing_pattern>>
MinimalistProfiles ==
  { <<N0, N0, N0>>, <<N1, N0, N0>>, <<N0, N1, N0>>, <<N0, N0, N1>>,
    <<N1, N1, N1>>, <<Num(1, 2), N1, Num(3, 5)>>, <<N1, N1, Num(2, 5)>>, <<N1, Num(4, 5), N0>>,
    <<Num(-1, 1), N0, Num(1, 2)>>, <<Num(2, 1), Num(2, 1), Num(2, 1)>> }

\* <<commercial_scale_indicators, durability_specs_interest, technical_documentation_focus>>
HospitalityProfiles ==
  { <<N0, N0, N0>>, <<N1, N0, N0>>, <<N0, N1, N0>>, <<N0, N0, N1>>,
    <<N1, N1, N1>>, <<N1, N1, Num(1, 3)>>, <<N1, N1, Num(1, 2)>>, <<N1, N1, N0>>,
    <<Num(-1, 1), N0, Num(1, 2)>>, <<Num(2, 1), Num(2, 1), Num(2, 1)>> }

\* <<session_duration, page_depth, product_interaction_quality, return_visitor_pattern>>
ReadinessProfiles ==
  { <<N0, N0, N0, False>>, <<Num(600, 1), N0, N0, False>>, <<N0, Num(10, 1), N0, False>>,
    <<N0, N0, N1, N0>>, <<N0, N0, N0, True>>, <<Num(1200, 1), Num(20, 1), N1, True>>,
    <<Num(300, 1), Num(5, 1), Num(1, 2), Num(2, 1)>>, <<Num(-600, 1), Num(-10, 1), Num(-1, 1), False>>,
    <<N0, N0, Num(5, 1), NaN>> }

Vector(h, p, m, c, r) ==
  [k \in SignalKeys |->
     CASE k = "designer_story_engagement" -> h[1]
       [] k = "craftsmanship_content_focus" -> h[2]
       [] k = "heritage_content_time" -> h[3]
       [] k = "multi_room_navigation" -> p[1]
       [] k = "complete_project_interest" -> p[2]
       [] k = "budget_premium_indicators" -> p[3]
       [] k = "clean_aesthetic_preference" -> m[1]
       [] k = "integration_content_focus" -> m[2]
       [] k = "contemporary_browsing_pattern" -> m[3]
       [] k = "commercial_scale_indicators" -> c[1]
       [] k = "durability_specs_interest" -> c[2]
       [] k = "technical_documentation_focus" -> c[3]
       [] k = "session_duration" -> r[1]
       [] k = "page_depth" -> r[2]
       [] k = "product_interaction_quality" -> r[3]
       [] OTHER -> r[4]]

MidReadiness == <<Num(300, 1), Num(5, 1), Num(1, 2), Num(2, 1)>>

Zero3 == <<N0, N0, N0>>
Falsy3 == <<False, N0, N0>>
One3 == <<N1, N1, N1>>
Truthy3 == <<True, N1, N1>>

\* one choice of the four segments' profiles per primary segment, and the fallback
PrimaryProfiles ==
  { <<Zero3, Falsy3, Zero3, Zero3>>, <<One3, Falsy3, Zero3, Zero3>>, <<Zero3, Truthy3, Zero3, Zero3>>,
    <<Zero3, Falsy3, One3, Zero3>>, <<Zero3, Falsy3, Zero3, One3>> }

ZeroVector == Vector(Zero3, Falsy3, Zero3, Zero3, <<N0, N0, N0, False>>)
HeritageVector == Vector(One3, Falsy3, Zero3, Zero3, MidReadiness)
MessyVector == [HeritageVector EXCEPT !["page_depth"] = Str, !["integration_content_focus"] = PosInf]

\* the heritage signals at and around the bounds the code tests: the cap of
\* heritage_content_time (120), the factor bounds (0.6, 90), the heritage threshold
SaturatedProfiles ==
  { <<N1, N1, Num(120, 1)>>, <<N1, N1, Num(240, 1)>>, <<N1, N1, Num(119, 1)>>,
    <<Num(3, 5), N1, Num(90, 1)>>, <<Num(7, 10), N1, Num(91, 1)>>, <<Num(3, 5), Num(3, 5), Num(120, 1)>> }

\* the choices of max keys (as indices of requiredSignals, repetitions allowed)
KeyChoices(max) ==
  { ks \in [1..max -> 1..Len(requiredSignals)] : \A i \in 1..(max - 1) : ks[i] <= ks[i + 1] }

\* base with the keys ks holding the values vs
RECURSIVE Override(_, _, _, _)
Override(base, ks, vs, i) ==
  IF i = 0 THEN base
  ELSE [Override(base, ks, vs, i - 1) EXCEPT ![requiredSignals[ks[i]]] = vs[i]]

MissingValues == {Undefined, Null}
MalformedValues == {Str, NaN, PosInf, NegInf}
OddValues == {Undefined, Null, Obj, True, False, Str, NaN, PosInf, NegInf, Num(-1, 2), Num(3, 1)}

\* values of Math.random(), which lies in [0, 1): the least, a small one, one near the greatest
RandomDraws == {Num(0, 1), Num(1, 20), Num(99, 100)}

\* the draws of one call of generateDemoSignals: one per group of signals (heritage,
\* planner, the other two segments, readiness), one per flag, one for the choice of template
Draws == [h : RandomDraws, p : RandomDraws, o : RandomDraws, r : RandomDraws,
          f1 : RandomDraws, f2 : RandomDraws, pick : RandomDraws]

\* arguments of a call of generateDemoSignals; the parameter defaults to 'random'
DemoTypes == {"heritage", "planner", "random", "minimalist"}

\* values a JSON body can hold in a key of signals (1e999 parses to Infinity; NaN has no
\* JSON text; Undefined stands for a key left out)
JsonValues == OddValues \ {NaN}

\* values of body.signals that are not objects of signals
ScalarValues == {Str, Null, True, N0}

\* signals sent along with a demo_mode
DemoBodySignals ==
  {NoSignals, ObjectSignals(ZeroVector), ObjectSignals([ZeroVector EXCEPT !["page_depth"] = Str])}

\* calls of validateSegmentClassification in progress at once
MaxCalls == 2

CallIds == 1..MaxCalls

\* the vectors of the calls in progress at once: one per outcome
ConcurrentVectors ==
  { Vector(<<N1, N1, Num(240, 1)>>, Falsy3, Zero3, Zero3, MidReadiness),
    Vector(Zero3, Truthy3, Zero3, Zero3, MidReadiness),
    ZeroVector,
    [ZeroVector EXCEPT !["page_depth"] = Str],
    [ZeroVector EXCEPT !["clean_aesthetic_preference"] = PosInf, !["integration_content_focus"] = NegInf] }

\* the frame of a call: where it is, its argument, its locals, its outcome, and the objects
\* it has created (by their addresses)
IdleCall ==
  [pc |-> "idle", signals |-> [k \in SignalKeys |-> Undefined], probabilities |-> <<>>,
   primarySegment |-> "", confidence |-> <<>>,
   out |-> [status |-> "none", classification |-> <<>>, error |-> <<>>, trace |-> <<>>],
   objects |-> {}]

\* arguments of a direct call of selectPrimarySegment: a mapping with the four keys in
\* the order of the literal of calculateSegmentProbabilities
ProbabilityGrid ==
  {Num(0, 1), Num(7, 10), Num(75, 100), Num(8, 10), Num(85, 100), Num(1, 1), Num(3, 2), NaN}

Mapping(a, b, c, d) ==
  << [k |-> "italian_heritage_advocate", v |-> a], [k |-> "luxury_project_planner", v |-> b],
     [k |-> "international_minimalist", v |-> c], [k |-> "hospitality_professional", v |-> d] >>

\* arguments of a direct call of calculateConsultationReadiness
SegmentArgs ==
  {"italian_heritage_advocate", "luxury_project_planner", "international_minimalist",
   "hospitality_professional", "unknown_segment"}

(***************************************************************************)
(* The service: constructed once, then called any number of times          *)
(***************************************************************************)
Init ==
  /\ mohdConfig = loadMOHDConfiguration
  /\ op = "none"
  /\ signals = [k \in SignalKeys |-> Undefined]
  /\ segmentArg = ""
  /\ probabilitiesArg = <<>>
  /\ status = "none"
  /\ classification = <<>>
  /\ error = <<>>
  /\ trace = <<>>
  /\ value = <<>>
  /\ segment = ""
  /\ angle = ""
  /\ given = [k \in SignalKeys |-> Undefined]
  /\ generated = <<>>
  /\ request = <<>>
  /\ passed = FALSE
  /\ responses = <<>>
  /\ earlier = <<>>
  /\ raises = FALSE
  /\ heapTop = 0
  /\ calls = [c \in CallIds |-> IdleCall]

\* Call writing a lowered heritage threshold into the catalog
CallAdapting(sig) ==
  \E out \in {validateSegmentClassification(mohdConfig, sig)} :
    /\ op' = "validateSegmentClassification"
    /\ signals' = sig
    /\ segmentArg' = ""
    /\ probabilitiesArg' = <<>>
    /\ status' = out.status
    /\ classification' = out.classification
    /\ error' = out.error
    /\ trace' = out.trace
    /\ value' = <<>>
    /\ segment' = ""
    /\ angle' = ""
    /\ generated' = <<>>
    /\ request' = <<>>
    /\ passed' = FALSE
    /\ responses' = <<>>
    /\ given' = sig
    /\ mohdConfig' = [mohdConfig EXCEPT !.customerSegments.italian_heritage_advocate.thresholds.confidence = Num(7, 10)]
    /\ raises' = FALSE
    /\ UNCHANGED <<earlier, heapTop, calls>>

\* Call writing the flags back into the vector as booleans
CallNormalising(sig) ==
  \E out \in {validateSegmentClassification(mohdConfig, sig)} :
    /\ op' = "validateSegmentClassification"
    /\ signals' = [k \in SignalKeys |-> IF k \in booleanSignals THEN (IF Truthy(sig[k]) THEN True ELSE False) ELSE sig[k]]
    /\ segmentArg' = ""
    /\ probabilitiesArg' = <<>>
    /\ status' = out.status
    /\ classification' = out.classification
    /\ error' = out.error
    /\ trace' = out.trace
    /\ value' = <<>>
    /\ segment' = ""
    /\ angle' = ""
    /\ generated' = <<>>
    /\ request' = <<>>
    /\ passed' = FALSE
    /\ responses' = <<>>
    /\ given' = sig
    /\ raises' = FALSE
    /\ UNCHANGED <<mohdConfig, earlier, heapTop, calls>>

\* validateSegmentClassification(sig) runs to its end and the outcome is with the caller
Call(sig) ==
  \E out \in {validateSegmentClassification(mohdConfig, sig)} :
    /\ op' = "validateSegmentClassification"
    /\ signals' = sig
    /\ segmentArg' = ""
    /\ probabilitiesArg' = <<>>
    /\ status' = out.status
    /\ classification' = out.classification
    /\ error' = out.error
    /\ trace' = out.trace
    /\ value' = <<>>
    /\ segment' = ""
    /\ angle' = ""
    /\ generated' = <<>>
    /\ request' = <<>>
    /\ passed' = FALSE
    /\ responses' = <<>>
    /\ given' = sig
    /\ raises' = FALSE
    /\ UNCHANGED <<mohdConfig, earlier, heapTop, calls>>

\* a call with a vector whose reads raise inside calculateConsultationReadiness
CallRaising(sig) ==
  \E out \in {validateSegmentClassificationRaising(mohdConfig, sig)} :
    /\ op' = "validateSegmentClassification"
    /\ signals' = sig
    /\ segmentArg' = ""
    /\ probabilitiesArg' = <<>>
    /\ status' = out.status
    /\ classification' = out.classification
    /\ error' = out.error
    /\ trace' = out.trace
    /\ value' = <<>>
    /\ segment' = ""
    /\ angle' = ""
    /\ generated' = <<>>
    /\ request' = <<>>
    /\ passed' = FALSE
    /\ responses' = <<>>
    /\ given' = sig
    /\ raises' = TRUE
    /\ UNCHANGED <<mohdConfig, earlier, heapTop, calls>>

\* a call with numbers (and flags) in every key: every combination of the segments' profiles
ClassifyScores ==
  /\ op = "none"
  /\ \E h \in HeritageProfiles, p \in PlannerProfiles, m \in MinimalistProfiles,
        c \in HospitalityProfiles :
       Call(Vector(h, p, m, c, MidReadiness))

\* a call with each readiness profile, for each primary segment
ClassifyReadiness ==
  /\ op = "none"
  /\ \E pp \in PrimaryProfiles, r \in ReadinessProfiles :
       Call(Vector(pp[1], pp[2], pp[3], pp[4], r))

\* a call with the heritage signals at the bounds, every other signal 0 or false
ClassifyScenario ==
  /\ op = "none"
  /\ \E h \in SaturatedProfiles, p \in {Falsy3, <<N0, N0, N0>>} :
       Call(Vector(h, p, Zero3, Zero3, <<N0, N0, N0, False>>))

\* a call with up to MaxMissing keys absent or null
ClassifyMissing ==
  /\ op = "none"
  /\ \E base \in {HeritageVector, MessyVector}, ks \in KeyChoices(MaxMissing),
        vs \in [1..MaxMissing -> MissingValues] :
       Call(Override(base, ks, vs, MaxMissing))

\* a call with up to MaxMalformed keys holding a string, NaN or an infinity
ClassifyMalformed ==
  /\ op = "none"
  /\ \E ks \in KeyChoices(MaxMalformed), vs \in [1..MaxMalformed -> MalformedValues] :
       Call(Override(ZeroVector, ks, vs, MaxMalformed))

\* a call with one key holding a value of any kind
ClassifyOdd ==
  /\ op = "none"
  /\ \E base \in {ZeroVector, HeritageVector}, k \in SignalKeys, v \in OddValues :
       Call([base EXCEPT ![k] = v])

\* a caller invokes the method calculateConsultationReadiness(sig, seg) itself
ConsultationReadiness ==
  /\ op = "none"
  /\ \E pp \in PrimaryProfiles, r \in ReadinessProfiles, seg \in SegmentArgs :
       /\ op' = "calculateConsultationReadiness"
       /\ signals' = Vector(pp[1], pp[2], pp[3], pp[4], r)
       /\ segmentArg' = seg
       /\ probabilitiesArg' = <<>>
       /\ status' = "returned"
       /\ classification' = <<>>
       /\ error' = <<>>
       /\ trace' = <<"calculateConsultationReadiness">>
       /\ value' = <<calculateConsultationReadiness(Vector(pp[1], pp[2], pp[3], pp[4], r), seg)>>
       /\ segment' = ""
       /\ angle' = ""
       /\ generated' = <<>>
       /\ request' = <<>>
       /\ passed' = FALSE
       /\ responses' = <<>>
       /\ given' = Vector(pp[1], pp[2], pp[3], pp[4], r)
       /\ raises' = FALSE
       /\ UNCHANGED <<mohdConfig, earlier, heapTop, calls>>

\* a caller invokes the method selectPrimarySegment(probabilities) itself
SelectPrimary ==
  /\ op = "none"
  /\ \E a \in ProbabilityGrid, b \in ProbabilityGrid, c \in ProbabilityGrid, d \in ProbabilityGrid :
       /\ op' = "selectPrimarySegment"
       /\ probabilitiesArg' = Mapping(a, b, c, d)
       /\ segment' = selectPrimarySegment(mohdConfig, Mapping(a, b, c, d))
       /\ status' = "returned"
       /\ trace' = <<"selectPrimarySegment">>
       /\ angle' = ""
       /\ generated' = <<>>
       /\ request' = <<>>
       /\ passed' = FALSE
       /\ responses' = <<>>
       /\ raises' = FALSE
       /\ UNCHANGED <<mohdConfig, signals, segmentArg, classification, error, value, given, earlier, heapTop, calls>>

\* a caller invokes the method selectContentAngle(seg) itself
ContentAngle ==
  /\ op = "none"
  /\ \E seg \in SegmentArgs :
       /\ op' = "selectContentAngle"
       /\ segmentArg' = seg
       /\ angle' = selectContentAngle(seg)
       /\ status' = "returned"
       /\ trace' = <<"selectContentAngle">>
       /\ generated' = <<>>
       /\ request' = <<>>
       /\ passed' = FALSE
       /\ responses' = <<>>
       /\ raises' = FALSE
       /\ UNCHANGED <<mohdConfig, signals, probabilitiesArg, classification, error, value, segment, given, earlier, heapTop, calls>>

\* a caller invokes the method generateDemoSignals(segmentType) itself
GenerateDemo ==
  /\ op = "none"
  /\ \E type \in DemoTypes, rnd \in Draws :
       /\ op' = "generateDemoSignals"
       /\ segmentArg' = type
       /\ generated' = <<generateDemoSignals(type, rnd)>>
       /\ status' = "returned"
       /\ trace' = <<"generateDemoSignals">>
       /\ raises' = FALSE
       /\ UNCHANGED <<mohdConfig, signals, given, probabilitiesArg, classification, error, value,
                      segment, angle, request, passed, responses, earlier, heapTop, calls>>

\* one request to POST /api/v1/segment/classify, from the middleware to the response
Post(body, rnd) ==
  \E mw \in {validateInput(body)} :
    /\ op' = "POST /api/v1/segment/classify"
    /\ request' = <<body>>
    /\ passed' = mw.next
    /\ segmentArg' = ""
    /\ probabilitiesArg' = <<>>
    /\ value' = <<>>
    /\ segment' = ""
    /\ angle' = ""
    /\ IF mw.next
       THEN \E h \in {classifyHandler(mohdConfig, body, rnd)} :
              /\ generated' = h.generated
              /\ signals' = h.signals
              /\ given' = h.signals
              /\ status' = h.out.status
              /\ classification' = h.out.classification
              /\ error' = h.out.error
              /\ trace' = <<"validateInput", "next">> \o h.out.trace
              /\ responses' = h.responses
       ELSE /\ generated' = <<>>
            /\ signals' = EmptyObject
            /\ given' = EmptyObject
            /\ status' = "none"
            /\ classification' = <<>>
            /\ error' = <<>>
            /\ trace' = <<"validateInput">>
            /\ responses' = mw.response
    /\ raises' = FALSE
    /\ UNCHANGED <<mohdConfig, earlier, heapTop, calls>>

\* a request with signals in the body and no demo_mode
PostSignals ==
  /\ op = "none"
  /\ \/ \E base \in {ZeroVector, HeritageVector}, k \in SignalKeys, v \in JsonValues :
          Post(Body(ObjectSignals([base EXCEPT ![k] = v]), ""), CHOOSE rnd \in Draws : TRUE)
     \/ \E s \in {NoSignals} \cup {ScalarSignals(v) : v \in ScalarValues} :
          Post(Body(s, ""), CHOOSE rnd \in Draws : TRUE)

\* a request with a demo_mode
PostDemo ==
  /\ op = "none"
  /\ \E mode \in DemoTypes, s \in DemoBodySignals, rnd \in Draws : Post(Body(s, mode), rnd)

\* a request whose body is not an object
PostWithoutBody ==
  /\ op = "none"
  /\ Post(NoBody, CHOOSE rnd \in Draws : TRUE)

\* GET /api/v1/mohd/config: the response carries the catalog
ReadConfig ==
  /\ op = "none"
  /\ op' = "GET /api/v1/mohd/config"
  /\ responses' = <<[code |-> 200, success |-> TRUE, error |-> <<>>, data |-> <<[config |-> mohdConfig]>>]>>
  /\ status' = "returned"
  /\ trace' = <<"res.json">>
  /\ raises' = FALSE
  /\ UNCHANGED <<mohdConfig, signals, given, segmentArg, probabilitiesArg, classification, error, value,
                 segment, angle, generated, request, passed, earlier, heapTop, calls>>

\* a call with each readiness profile, made with a vector whose reads raise inside the
\* try block of calculateConsultationReadiness
ClassifyDegraded ==
  /\ op = "none"
  /\ \E pp \in PrimaryProfiles, r \in ReadinessProfiles :
       CallRaising(Vector(pp[1], pp[2], pp[3], pp[4], r))

\* the caller has taken the outcome and keeps it, to compare the outcomes of later calls with it
Keep ==
  /\ op = "validateSegmentClassification"
  /\ earlier = <<>>
  /\ op' = "none"
  /\ signals' = [k \in SignalKeys |-> Undefined]
  /\ segmentArg' = ""
  /\ status' = "none"
  /\ classification' = <<>>
  /\ error' = <<>>
  /\ trace' = <<>>
  /\ value' = <<>>
  /\ segment' = ""
  /\ probabilitiesArg' = <<>>
  /\ angle' = ""
  /\ generated' = <<>>
  /\ request' = <<>>
  /\ passed' = FALSE
  /\ responses' = <<>>
  /\ given' = [k \in SignalKeys |-> Undefined]
  /\ raises' = FALSE
  /\ earlier' = <<[signals |-> signals, raises |-> raises, status |-> status,
                   classification |-> classification, error |-> error]>>
  /\ UNCHANGED <<mohdConfig, heapTop, calls>>

\* the caller has taken the outcome; the synchronous call leaves nothing behind
Done ==
  /\ op # "none"
  /\ op' = "none"
  /\ signals' = [k \in SignalKeys |-> Undefined]
  /\ segmentArg' = ""
  /\ status' = "none"
  /\ classification' = <<>>
  /\ error' = <<>>
  /\ trace' = <<>>
  /\ value' = <<>>
  /\ segment' = ""
  /\ probabilitiesArg' = <<>>
  /\ angle' = ""
  /\ generated' = <<>>
  /\ request' = <<>>
  /\ passed' = FALSE
  /\ responses' = <<>>
  /\ given' = [k \in SignalKeys |-> Undefined]
  /\ raises' = FALSE
  /\ UNCHANGED <<mohdConfig, earlier, heapTop, calls>>

Next ==
  \/ ClassifyScores
  \/ ClassifyReadiness
  \/ ClassifyScenario
  \/ ClassifyMissing
  \/ ClassifyMalformed
  \/ ClassifyOdd
  \/ ConsultationReadiness
  \/ SelectPrimary
  \/ ContentAngle
  \/ GenerateDemo
  \/ ReadConfig
  \/ PostSignals
  \/ PostDemo
  \/ PostWithoutBody
  \/ Done

Spec == Init /\ [][Next]_vars

(***************************************************************************)
(* Calls in progress at once: each call runs validateSegmentClassification *)
(* statement by statement in a frame of its own; the steps of the calls    *)
(* interleave in any order.  An object or array literal evaluated by a     *)
(* step takes the next free address.                                       *)
(***************************************************************************)
callerVars ==
  <<op, signals, segmentArg, probabilitiesArg, status, classification, error, trace, value, segment,
    angle, given, generated, request, passed, responses, earlier, raises>>

\* a call is made
Begin(c) ==
  /\ calls[c].pc = "idle"
  /\ \E sig \in ConcurrentVectors :
       calls' = [calls EXCEPT ![c] = [IdleCall EXCEPT !.pc = "validate", !.signals = sig]]
  /\ UNCHANGED <<mohdConfig, heapTop, callerVars>>

\* the check for missing keys and the loop of type checks
Validate(c) ==
  /\ calls[c].pc = "validate"
  /\ LET sig == calls[c].signals
     IN  calls' =
           [calls EXCEPT ![c] =
              IF Len(missingSignals(sig)) > 0
              THEN [@ EXCEPT !.pc = "thrown",
                             !.out = Thrown(MissingError(missingSignals(sig)), <<"missingCheck">>)]
              ELSE IF Len(malformedSignals(sig)) > 0
              THEN [@ EXCEPT !.pc = "thrown",
                             !.out = Thrown(TypeError(Head(malformedSignals(sig)),
                                                      sig[Head(malformedSignals(sig))]),
                                            <<"missingCheck", "typeCheck">>)]
              ELSE [@ EXCEPT !.pc = "probabilities"]]
  /\ UNCHANGED <<mohdConfig, heapTop, callerVars>>

\* const probabilities = this.calculateSegmentProbabilities(signals): a new object
Probabilities(c) ==
  /\ calls[c].pc = "probabilities"
  /\ calls' = [calls EXCEPT ![c] =
                 [@ EXCEPT !.pc = "select",
                           !.probabilities = calculateSegmentProbabilities(calls[c].signals),
                           !.objects = @ \cup {heapTop + 1}]]
  /\ heapTop' = heapTop + 1
  /\ UNCHANGED <<mohdConfig, callerVars>>

\* Select taking the probabilities from a field of the service, which the call that computed
\* probabilities last has written
SelectShared(c) ==
  /\ calls[c].pc = "select"
  /\ LET written == {d \in CallIds \ {c} : calls[d].probabilities # <<>>}
         probabilities == IF written = {} THEN calls[c].probabilities
                          ELSE calls[CHOOSE d \in written : TRUE].probabilities
         primarySegment == selectPrimarySegment(mohdConfig, probabilities)
     IN  calls' = [calls EXCEPT ![c] =
                     [@ EXCEPT !.pc = "confidence",
                               !.primarySegment = primarySegment,
                               !.confidence = <<confidenceOf(probabilities, primarySegment)>>]]
  /\ UNCHANGED <<mohdConfig, heapTop, callerVars>>

\* const primarySegment = this.selectPrimarySegment(probabilities);
\* const confidence = probabilities[primarySegment]
Select(c) ==
  /\ calls[c].pc = "select"
  /\ LET probabilities == calls[c].probabilities
         primarySegment == selectPrimarySegment(mohdConfig, probabilities)
     IN  calls' = [calls EXCEPT ![c] =
                     [@ EXCEPT !.pc = "confidence",
                               !.primarySegment = primarySegment,
                               !.confidence = <<confidenceOf(probabilities, primarySegment)>>]]
  /\ UNCHANGED <<mohdConfig, heapTop, callerVars>>

\* the check of the confidence
Confidence(c) ==
  /\ calls[c].pc = "confidence"
  /\ calls' = [calls EXCEPT ![c] =
                 IF confidenceCheckFails(calls[c].confidence[1])
                 THEN [@ EXCEPT !.pc = "thrown",
                                !.out = Thrown(ConfidenceError,
                                               <<"missingCheck", "typeCheck",
                                                 "calculateSegmentProbabilities",
                                                 "selectPrimarySegment", "confidenceCheck">>)]
                 ELSE [@ EXCEPT !.pc = "build"]]
  /\ UNCHANGED <<mohdConfig, heapTop, callerVars>>

\* const classification = {...}: a new array of factors and a new object, returned
Build(c) ==
  /\ calls[c].pc = "build"
  /\ LET sig == calls[c].signals
         primarySegment == calls[c].primarySegment
     IN  calls' =
           [calls EXCEPT ![c] =
              [@ EXCEPT !.pc = "returned",
                        !.out = Returned(
                           [primary_segment |-> primarySegment,
                            confidence_score |-> calls[c].confidence[1],
                            segment_probabilities |-> calls[c].probabilities,
                            classification_factors |-> identifyClassificationFactors(sig, primarySegment),
                            recommended_content_angle |-> selectContentAngle(primarySegment),
                            consultation_readiness_score |->
                              calculateConsultationReadiness(sig, primarySegment)],
                           <<"missingCheck", "typeCheck", "calculateSegmentProbabilities",
                             "selectPrimarySegment", "confidenceCheck", "identifyClassificationFactors",
                             "selectContentAngle", "calculateConsultationReadiness">>),
                        !.objects = @ \cup {heapTop + 1, heapTop + 2}]]
  /\ heapTop' = heapTop + 2
  /\ UNCHANGED <<mohdConfig, callerVars>>

NextConcurrent ==
  \E c \in CallIds :
    \/ Begin(c)
    \/ Validate(c)
    \/ Probabilities(c)
    \/ Select(c)
    \/ Confidence(c)
    \/ Build(c)

SpecConcurrent == Init /\ [][NextConcurrent]_vars

\* a caller that keeps one outcome and goes on calling
NextSession ==
  \/ ClassifyReadiness
  \/ ClassifyScenario
  \/ ClassifyOdd
  \/ ClassifyDegraded
  \/ ReadConfig
  \/ Keep
  \/ Done

SpecSession == Init /\ [][NextSession]_vars

TypeOK ==
  /\ status \in {"none", "returned", "thrown"}
  /\ Len(classification) <= 1
  /\ Len(error) <= 1

(***************************************************************************)
(* Reading a state: the call made and what the caller holds                *)
(***************************************************************************)
ClassifyReturned == op = "validateSegmentClassification" /\ status = "returned"

ClassifyThrown == op = "validateSegmentClassification" /\ status = "thrown"

Result == classification[1]

SegmentOrder ==
  <<"italian_heritage_advocate", "luxury_project_planner", "international_minimalist",
    "hospitality_professional">>

\* the confidence thresholds as the specification states them, in hundredths
StatedThreshold(id) ==
  CASE id = "italian_heritage_advocate" -> 75
    [] id = "luxury_project_planner" -> 85
    [] id = "international_minimalist" -> 70
    [] id = "hospitality_professional" -> 80

\* x is a number and x >= h/100
AtLeastHundredths(x, h) == x.t = "pinf" \/ (x.t = "fin" /\ x.n * 100 >= h * x.d)

\* x < y for numbers other than NaN
Below(x, y) ==
  \/ x.t = "ninf" /\ y.t # "ninf"
  \/ x.t = "fin" /\ y.t = "pinf"
  \/ x.t = "fin" /\ y.t = "fin" /\ x.n * y.d < y.n * x.d

\* the positions of the mapping whose segment meets its own threshold
EligibleIn(probs) == { i \in 1..Len(probs) : AtLeastHundredths(probs[i].v, StatedThreshold(probs[i].k)) }

\* all 16 keys present and non-null, every numeric signal finite, every flag boolean or number
ValidVector(sig) ==
  \A k \in SignalKeys :
    IF k \in booleanSignals THEN sig[k].t \in {"boolean", "fin", "nan", "pinf", "ninf"}
    ELSE sig[k].t = "fin"

InUnitInterval(x) == x.t = "fin" /\ 0 <= x.n /\ x.n <= x.d

(***************************************************************************)
(* C1: selectPrimarySegment walks the mapping in the order heritage,       *)
(* planner, minimalist, hospitality; when some segment's probability is at *)
(* least its own threshold (0.75, 0.85, 0.70, 0.80) it returns such a      *)
(* segment of greatest probability, and among segments with that greatest  *)
(* probability the one declared first.                                     *)
(***************************************************************************)
SelectionRule(probs, primary) ==
  /\ [i \in 1..Len(probs) |-> probs[i].k] = SegmentOrder
  /\ EligibleIn(probs) # {} =>
       \E w \in EligibleIn(probs) :
         /\ primary = probs[w].k
         /\ \A e \in EligibleIn(probs) :
              /\ ~Below(probs[w].v, probs[e].v)
              /\ probs[e].v = probs[w].v => w <= e

C1_PrimarySelection ==
  /\ op = "selectPrimarySegment" => SelectionRule(probabilitiesArg, segment)
  /\ ClassifyReturned => SelectionRule(Result.segment_probabilities, Result.primary_segment)

\* two segments meet their thresholds with the same greatest probability below 1, and the
\* first of them is the primary segment of a classification
C1_Witness ==
  /\ ClassifyReturned
  /\ Result.primary_segment = "italian_heritage_advocate"
  /\ Result.confidence_score = Num(85, 100)
  /\ Get(Result.segment_probabilities, "hospitality_professional") = Num(85, 100)
  /\ Get(Result.segment_probabilities, "international_minimalist") = Num(7, 10)

(***************************************************************************)
(* C2: when no segment's probability reaches its own threshold, the call   *)
(* returns international_minimalist with the probability that segment      *)
(* scored, also when that is below 0.70 and another segment scored higher. *)
(***************************************************************************)
C2_Fallback ==
  /\ (ClassifyReturned /\ EligibleIn(Result.segment_probabilities) = {}) =>
       /\ Result.primary_segment = "international_minimalist"
       /\ Result.confidence_score = Get(Result.segment_probabilities, "international_minimalist")
  /\ (op = "validateSegmentClassification" /\ ValidVector(signals)
        /\ EligibleIn(calculateSegmentProbabilities(signals)) = {}) => status = "returned"
  /\ (op = "selectPrimarySegment" /\ EligibleIn(probabilitiesArg) = {}) =>
       segment = "international_minimalist"

\* the fallback is returned although the heritage segment scored strictly higher
C2_Witness ==
  /\ ClassifyReturned
  /\ EligibleIn(Result.segment_probabilities) = {}
  /\ Result.primary_segment = "international_minimalist"
  /\ Result.confidence_score = Num(4, 10)
  /\ Get(Result.segment_probabilities, "italian_heritage_advocate") = Num(7, 10)

(***************************************************************************)
(* C3: for a valid signal vector, finite values outside [0,1] included,    *)
(* the call returns and each of the four probabilities is in [0,1].        *)
(***************************************************************************)
C3_ProbabilitiesInUnitInterval ==
  (op = "validateSegmentClassification" /\ ValidVector(signals)) =>
    /\ status = "returned"
    /\ Len(Result.segment_probabilities) = 4
    /\ \A i \in 1..4 : InUnitInterval(Result.segment_probabilities[i].v)

\* raw scores above 1 and below 0 were clamped
C3_Witness ==
  /\ ClassifyReturned
  /\ ValidVector(signals)
  /\ signals["designer_story_engagement"] = Num(2, 1)
  /\ signals["commercial_scale_indicators"] = Num(-1, 1)
  /\ Get(Result.segment_probabilities, "italian_heritage_advocate") = Num(1, 1)
  /\ Get(Result.segment_probabilities, "hospitality_professional") = Num(0, 1)

(***************************************************************************)
(* C4: in every returned classification, confidence_score is the value of  *)
(* segment_probabilities under the key primary_segment.                    *)
(***************************************************************************)
C4_ConfidenceIsPrimaryProbability ==
  ClassifyReturned =>
    \E i \in 1..Len(Result.segment_probabilities) :
      /\ Result.segment_probabilities[i].k = Result.primary_segment
      /\ Result.segment_probabilities[i].v = Result.confidence_score

\* a primary segment that is not the best-scoring one: the fallback under a higher score
C4_Witness ==
  /\ ClassifyReturned
  /\ Result.primary_segment = "international_minimalist"
  /\ Result.confidence_score = Num(0, 1)
  /\ Get(Result.segment_probabilities, "luxury_project_planner") = Num(65, 100)

(***************************************************************************)
(* C5: when at least one required key is absent or null, whatever the      *)
(* other keys hold, the call throws the missing-signals error, whose       *)
(* message lists each missing key once and no key that is present.         *)
(***************************************************************************)
MissingKeys(sig) == { k \in SignalKeys : sig[k].t \in {"undefined", "null"} }

Named(err) == { err.keys[i] : i \in 1..Len(err.keys) }

C5_MissingKeysNamed ==
  (op = "validateSegmentClassification" /\ MissingKeys(signals) # {}) =>
    /\ status = "thrown"
    /\ classification = <<>>
    /\ error[1].message = "Missing required signals"
    /\ Named(error[1]) = MissingKeys(signals)
    /\ Len(error[1].keys) = Cardinality(MissingKeys(signals))

\* one key absent, one null, and two more keys malformed
C5_Witness ==
  /\ ClassifyThrown
  /\ signals["heritage_content_time"] = Undefined
  /\ signals["return_visitor_pattern"] = Null
  /\ signals["page_depth"] = Str
  /\ signals["integration_content_focus"] = PosInf
  /\ error[1].keys = <<"heritage_content_time", "return_visitor_pattern">>

(***************************************************************************)
(* C6: the call throws whenever one of the 14 numeric signals is not a     *)
(* finite number (a string, a boolean, an object, NaN or an infinity).     *)
(***************************************************************************)
NumericSignals == SignalKeys \ booleanSignals

C6_NonFiniteRejected ==
  (op = "validateSegmentClassification" /\ \E k \in NumericSignals : signals[k].t # "fin") =>
    status = "thrown"

(***************************************************************************)
(* C7: for every vector that passes the validation of the call, the        *)
(* consultation_readiness_score of the result is in [0,1].                 *)
(***************************************************************************)
C7_ReadinessInUnitInterval ==
  ClassifyReturned => InUnitInterval(Result.consultation_readiness_score)

(***************************************************************************)
(* C8: when the call throws, the checks of the 16 keys are the only steps  *)
(* that ran: no scoring step has started, and the caller holds the error   *)
(* and no classification.                                                  *)
(***************************************************************************)
ValidationSteps == {"missingCheck", "typeCheck"}

C8_AtomicFailure ==
  ClassifyThrown =>
    /\ \A i \in 1..Len(trace) : trace[i] \in ValidationSteps
    /\ classification = <<>>
    /\ Len(error) = 1

(***************************************************************************)
(* C9: for a valid vector the four probabilities are clamp01 of            *)
(*   heritage    0.4 dse + 0.3 ccf + 0.3 min(hct/120, 1)                   *)
(*   planner     0.35 bool(mrn) + 0.35 cpi + 0.3 bpi                       *)
(*   minimalist  0.4 cap + 0.35 icf + 0.25 cbp                             *)
(*   hospitality 0.4 csi + 0.3 dsi + 0.3 tdf                               *)
(* each with weights that sum to 1, and depend on no other signal.         *)
(***************************************************************************)
\* arithmetic on finite numbers, with the weights in hundredths
Plus(x, y) == Num(x.n * y.d + y.n * x.d, x.d * y.d)
Weighted(h, x) == Num(h * x.n, 100 * x.d)
Capped(x, c) == IF x.n < c * x.d THEN Num(x.n, c * x.d) ELSE Num(1, 1)
Unit(x) == IF x.n < 0 THEN Num(0, 1) ELSE IF x.n > x.d THEN Num(1, 1) ELSE x
Flag(x) == IF (x.t \in {"boolean", "fin"} /\ x.n # 0) \/ x.t \in {"pinf", "ninf"} THEN Num(1, 1) ELSE Num(0, 1)
Sum3(h1, x1, h2, x2, h3, x3) == Plus(Plus(Weighted(h1, x1), Weighted(h2, x2)), Weighted(h3, x3))

StatedProbability(sig, id) ==
  CASE id = "italian_heritage_advocate" ->
         Unit(Sum3(40, sig["designer_story_engagement"], 30, sig["craftsmanship_content_focus"],
                   30, Capped(sig["heritage_content_time"], 120)))
    [] id = "luxury_project_planner" ->
         Unit(Sum3(35, Flag(sig["multi_room_navigation"]), 35, sig["complete_project_interest"],
                   30, sig["budget_premium_indicators"]))
    [] id = "international_minimalist" ->
         Unit(Sum3(40, sig["clean_aesthetic_preference"], 35, sig["integration_content_focus"],
                   25, sig["contemporary_browsing_pattern"]))
    [] id = "hospitality_professional" ->
         Unit(Sum3(40, sig["commercial_scale_indicators"], 30, sig["durability_specs_interest"],
                   30, sig["technical_documentation_focus"]))

C9_SegmentScores ==
  /\ 40 + 30 + 30 = 100 /\ 35 + 35 + 30 = 100 /\ 40 + 35 + 25 = 100
  /\ (op = "validateSegmentClassification" /\ ValidVector(signals)) =>
       /\ status = "returned"
       /\ \A i \in 1..4 :
            Get(Result.segment_probabilities, SegmentOrder[i]) = StatedProbability(signals, SegmentOrder[i])

\* each segment scored by a different one of its three signals
C9_Witness ==
  /\ ClassifyReturned
  /\ ValidVector(signals)
  /\ Get(Result.segment_probabilities, "italian_heritage_advocate") = Num(4, 10)
  /\ Get(Result.segment_probabilities, "luxury_project_planner") = Num(35, 100)
  /\ Get(Result.segment_probabilities, "international_minimalist") = Num(25, 100)
  /\ Get(Result.segment_probabilities, "hospitality_professional") = Num(3, 10)
  /\ signals["durability_specs_interest"] = Num(1, 1)

(***************************************************************************)
(* C10: for a valid vector the readiness score is clamp01(base * m), with  *)
(*   base = 0.3 min(sd/600, 1) + 0.2 min(pd/10, 1) + 0.3 piq + 0.2 bool(rvp)*)
(* and m = 1.5 planner, 1.3 hospitality, 1.1 heritage, 0.8 minimalist and  *)
(* 1.0 for any other segment id.                                           *)
(***************************************************************************)
StatedBase(sig) ==
  Plus(Plus(Plus(Weighted(30, Capped(sig["session_duration"], 600)),
                 Weighted(20, Capped(sig["page_depth"], 10))),
            Weighted(30, sig["product_interaction_quality"])),
       Weighted(20, Flag(sig["return_visitor_pattern"])))

StatedMultiplier(id) ==
  CASE id = "luxury_project_planner" -> 150
    [] id = "hospitality_professional" -> 130
    [] id = "italian_heritage_advocate" -> 110
    [] id = "international_minimalist" -> 80
    [] OTHER -> 100

StatedReadiness(sig, id) == Unit(Weighted(StatedMultiplier(id), StatedBase(sig)))

StatedAngle ==
  [italian_heritage_advocate |-> "italian_heritage",
   luxury_project_planner |-> "project_completion",
   international_minimalist |-> "contemporary_integration",
   hospitality_professional |-> "artisanal_excellence"]

AngleFor(id) == IF id \in DOMAIN StatedAngle THEN StatedAngle[id] ELSE "contemporary_integration"

CatalogAngles == {mohdConfig.contentAngles[i] : i \in 1..Len(mohdConfig.contentAngles)}

Above(x, n, d) == x.t = "pinf" \/ (x.t = "fin" /\ x.n * d > n * x.d)

IsSet(x) == Flag(x) = Num(1, 1)

\* the three checks of a segment, in order: <<passes, text>>
StatedChecks(sig, id) ==
  CASE id = "italian_heritage_advocate" ->
         << <<Above(sig["designer_story_engagement"], 6, 10), "High designer story engagement">>,
            <<Above(sig["craftsmanship_content_focus"], 6, 10), "Strong craftsmanship interest">>,
            <<Above(sig["heritage_content_time"], 90, 1), "Extended heritage content consumption">> >>
    [] id = "luxury_project_planner" ->
         << <<IsSet(sig["multi_room_navigation"]), "Multi-room project exploration">>,
            <<Above(sig["complete_project_interest"], 6, 10), "Complete project interest signals">>,
            <<Above(sig["budget_premium_indicators"], 6, 10), "Premium budget indicators">> >>
    [] id = "international_minimalist" ->
         << <<Above(sig["clean_aesthetic_preference"], 6, 10), "Clean aesthetic preference">>,
            <<Above(sig["integration_content_focus"], 6, 10), "Integration-focused browsing">>,
            <<Above(sig["contemporary_browsing_pattern"], 6, 10), "Contemporary design pattern">> >>
    [] id = "hospitality_professional" ->
         << <<Above(sig["commercial_scale_indicators"], 6, 10), "Commercial scale indicators">>,
            <<Above(sig["durability_specs_interest"], 6, 10), "Technical specification focus">>,
            <<Above(sig["technical_documentation_focus"], 6, 10), "Professional documentation interest">> >>

\* f lists, in the order of checks, exactly the texts of the checks that pass
ListsPassing(f, checks) ==
  /\ Len(f) <= 3
  /\ \A i \in 1..3 : checks[i][1] <=> (\E j \in 1..Len(f) : f[j] = checks[i][2])
  /\ \A j \in 1..Len(f) : \E i \in 1..3 : checks[i][1] /\ f[j] = checks[i][2]
  /\ \A j1, j2 \in 1..Len(f) :
       j1 < j2 => \E i1, i2 \in 1..3 : i1 < i2 /\ f[j1] = checks[i1][2] /\ f[j2] = checks[i2][2]

C13_ClassificationFactors ==
  ClassifyReturned =>
    ListsPassing(Result.classification_factors, StatedChecks(signals, Result.primary_segment))

\* heritage is primary with designer_story_engagement exactly 0.6 and heritage_content_time
\* exactly 90: only the craftsmanship check passes
C13_Witness ==
  /\ ClassifyReturned
  /\ Result.primary_segment = "italian_heritage_advocate"
  /\ signals["designer_story_engagement"] = Num(3, 5)
  /\ signals["heritage_content_time"] = Num(90, 1)
  /\ Result.classification_factors = <<"Strong craftsmanship interest">>

\* the fallback segment with none of its checks passing, while another segment's signals
\* are all high: the list is empty
C13_WitnessEmpty ==
  /\ ClassifyReturned
  /\ Result.primary_segment = "international_minimalist"
  /\ signals["designer_story_engagement"] = Num(1, 1)
  /\ signals["craftsmanship_content_focus"] = Num(1, 1)
  /\ Result.classification_factors = <<>>

(***************************************************************************)
(* C15: with the three scoring signals of heritage at their maximum        *)
(* (designer_story_engagement 1, craftsmanship_content_focus 1,            *)
(* heritage_content_time at least 120), every other numeric signal 0 and   *)
(* every flag false, the primary segment is italian_heritage_advocate, the *)
(* confidence is 1.0 and the angle is italian_heritage.  With the three    *)
(* scoring signals of the planner at their maximum (multi_room_navigation  *)
(* true, complete_project_interest 1, budget_premium_indicators 1) and     *)
(* everything else 0 or false, the primary segment is                      *)
(* luxury_project_planner, the confidence 1.0 and the angle                *)
(* project_completion.                                                     *)
(***************************************************************************)
HeritageKeys == {"designer_story_engagement", "craftsmanship_content_focus", "heritage_content_time"}
PlannerKeys == {"multi_room_navigation", "complete_project_interest", "budget_premium_indicators"}

\* every signal outside keys is the number 0 or the flag false
RestAtZero(sig, keys) ==
  \A k \in SignalKeys \ keys : IF k \in booleanSignals THEN sig[k] = False ELSE sig[k] = Num(0, 1)

HeritageSaturated(sig) ==
  /\ sig["designer_story_engagement"] = Num(1, 1)
  /\ sig["craftsmanship_content_focus"] = Num(1, 1)
  /\ sig["heritage_content_time"].t = "fin"
  /\ sig["heritage_content_time"].n >= 120 * sig["heritage_content_time"].d
  /\ RestAtZero(sig, HeritageKeys)

PlannerSaturated(sig) ==
  /\ sig["multi_room_navigation"] = True
  /\ sig["complete_project_interest"] = Num(1, 1)
  /\ sig["budget_premium_indicators"] = Num(1, 1)
  /\ RestAtZero(sig, PlannerKeys)

Classified(id, confidence, contentAngle) ==
  /\ status = "returned"
  /\ Result.primary_segment = id
  /\ Result.confidence_score = confidence
  /\ Result.recommended_content_angle = contentAngle

C15_SaturatedSegments ==
  /\ (op = "validateSegmentClassification" /\ HeritageSaturated(signals)) =>
       Classified("italian_heritage_advocate", Num(1, 1), "italian_heritage")
  /\ (op = "validateSegmentClassification" /\ PlannerSaturated(signals)) =>
       Classified("luxury_project_planner", Num(1, 1), "project_completion")

\* the saturated planner vector has been classified
C15_Witness ==
  /\ ClassifyReturned
  /\ PlannerSaturated(signals)
  /\ Result.primary_segment = "luxury_project_planner"

\* the saturated heritage vector, with heritage_content_time above its cap, has been classified
C15_WitnessHeritage ==
  /\ ClassifyReturned
  /\ HeritageSaturated(signals)
  /\ signals["heritage_content_time"] = Num(240, 1)
  /\ Result.confidence_score = Num(1, 1)

(***************************************************************************)
(* C16: with all 14 numeric signals 0 and both flags false the call        *)
(* succeeds: all four probabilities are 0, the primary segment is          *)
(* international_minimalist, the confidence is 0, the factor list is empty *)
(* and the consultation readiness is 0.                                    *)
(***************************************************************************)
AllZero(sig) == RestAtZero(sig, {})

C16_AllZero ==
  (op = "validateSegmentClassification" /\ AllZero(signals)) =>
    /\ status = "returned"
    /\ Len(Result.segment_probabilities) = 4
    /\ \A i \in 1..4 : Result.segment_probabilities[i].v = Num(0, 1)
    /\ Result.primary_segment = "international_minimalist"
    /\ Result.confidence_score = Num(0, 1)
    /\ Result.classification_factors = <<>>
    /\ Result.consultation_readiness_score = Num(0, 1)

\* the all-zero vector has been classified
C16_Witness ==
  /\ ClassifyReturned
  /\ AllZero(signals)
  /\ Result.primary_segment = "international_minimalist"
  /\ Result.confidence_score = Num(0, 1)

(***************************************************************************)
(* C18: whatever sequence of classify calls, demo-signal generations and   *)
(* configuration reads has run, the segment catalog (ids, thresholds,      *)
(* order) and the content-angle catalog are as loaded at construction, and *)
(* a call leaves the signal vector the caller passed as it was.            *)
(***************************************************************************)
C18_CatalogImmutable ==
  /\ mohdConfig = loadMOHDConfiguration
  /\ signals = given

\* a classification with heritage primary has returned: catalog and vector are untouched
C18_Witness ==
  /\ ClassifyReturned
  /\ Result.primary_segment = "italian_heritage_advocate"
  /\ given["heritage_content_time"] = Num(240, 1)
  /\ signals = given
  /\ mohdConfig = loadMOHDConfiguration

\* a configuration read answers with the catalog as loaded
C18_WitnessRead ==
  /\ op = "GET /api/v1/mohd/config"
  /\ responses[1].data[1].config = loadMOHDConfiguration

(***************************************************************************)
(* C19: whenever validateInput passes a request with signals on, every     *)
(* numeric value in signals other than session_duration, page_depth and    *)
(* heritage_content_time lies in [0, 1]; a request with such a value below *)
(* 0 or above 1 is answered with 400 and never reaches the classifier.     *)
(***************************************************************************)
PostClassify == op = "POST /api/v1/segment/classify"

IsNumber(x) == x.t \in {"fin", "nan", "pinf", "ninf"}

UnitKeys == SignalKeys \ {"session_duration", "page_depth", "heritage_content_time"}

\* the keys of the request's signals that hold a number outside [0, 1]
OutsideUnit(vec) == {k \in UnitKeys : IsNumber(vec[k]) /\ ~InUnitInterval(vec[k])}

AnsweredWith400 ==
  /\ ~passed
  /\ status = "none"
  /\ Len(responses) = 1
  /\ responses[1].code = 400

C19_RequestValidation ==
  (PostClassify /\ request[1].signals.kind = "object") =>
    /\ passed => OutsideUnit(request[1].signals.vector) = {}
    /\ OutsideUnit(request[1].signals.vector) # {} => AnsweredWith400

\* the part of the rule the middleware does enforce: a value above 1 is answered with 400
AboveOneRejected ==
  (PostClassify /\ request[1].signals.kind = "object"
     /\ \E k \in UnitKeys : Above(request[1].signals.vector[k], 1, 1)) => AnsweredWith400

\* a request with a negative signal has passed the middleware and has been classified
NegativePasses ==
  /\ PostClassify
  /\ passed
  /\ request[1].signals.vector["designer_story_engagement"] = Num(-1, 2)
  /\ status = "returned"
  /\ responses[1].code = 200

(***************************************************************************)
(* C20: every POST /segment/classify that reaches the handler gets exactly *)
(* one response.  When the classifier returns a result the response is a   *)
(* success envelope (success = true) wrapping that result; when the        *)
(* classifier fails, for any reason, the response is a 4xx envelope        *)
(* (success = false) whose error is the classifier's failure message.      *)
(* When demo_mode is given, the vector classified is the generated one,    *)
(* not the signals of the body.                                            *)
(***************************************************************************)
C20_RouteEnvelope ==
  (PostClassify /\ passed) =>
    /\ Len(responses) = 1
    /\ status = "returned" =>
         /\ responses[1].success
         /\ responses[1].code = 200
         /\ responses[1].data = <<[classification |-> Result, signals_used |-> signals]>>
    /\ status = "thrown" =>
         /\ ~responses[1].success
         /\ responses[1].code \in 400..499
         /\ responses[1].error = error
         /\ responses[1].data = <<>>
    /\ request[1].demo_mode # "" =>
         /\ status # "none"
         /\ generated # <<>>
         /\ signals = generated[1]

\* demo_mode heritage along with signals in the body: the generated vector was classified
C20_Witness ==
  /\ PostClassify
  /\ passed
  /\ request[1].demo_mode = "heritage"
  /\ request[1].signals.kind = "object"
  /\ request[1].signals.vector # signals
  /\ status = "returned"
  /\ responses[1].success

\* the classifier failed on the signals of the body: the envelope carries its message
C20_WitnessFailure ==
  /\ PostClassify
  /\ passed
  /\ status = "thrown"
  /\ responses = <<ErrorResponse(400, MissingError(<<"page_depth">>))>>

(***************************************************************************)
(* C11: two calls of classify with identical signal vectors, in any order  *)
(* and with any other calls in between, return identical values in every   *)
(* field (or fail alike): the outcome depends on the input and the static  *)
(* catalog only.                                                           *)
(***************************************************************************)
SameVectorAsEarlier ==
  /\ op = "validateSegmentClassification"
  /\ earlier # <<>>
  /\ signals = earlier[1].signals
  /\ raises = earlier[1].raises

C11_WitnessFailure ==
  /\ SameVectorAsEarlier
  /\ status = "thrown"
  /\ error = <<TypeError("page_depth", Str)>>

(***************************************************************************)
(* C14: when the consultation-readiness computation fails internally, the  *)
(* call still returns a complete result: consultation_readiness_score is   *)
(* 0.5, every other field is what it is when the step succeeds, and no     *)
(* error reaches the caller.                                               *)
(***************************************************************************)
ReadinessRaised ==
  /\ op = "validateSegmentClassification"
  /\ raises
  /\ \E i \in 1..Len(trace) : trace[i] = "calculateConsultationReadiness"

\* the call kept earlier had the same signals and its readiness step succeeded
EarlierSucceeded ==
  /\ earlier # <<>>
  /\ earlier[1].signals = signals
  /\ ~earlier[1].raises

OtherFields(c) ==
  <<c.segment_probabilities, c.primary_segment, c.confidence_score, c.classification_factors,
    c.recommended_content_angle>>

Finished(c) == calls[c].pc \in {"returned", "thrown"}

\* the outcome of the same call with nothing else in progress
Alone(c) == validateSegmentClassification(loadMOHDConfiguration, calls[c].signals)

\* what a call in progress holds is what it has computed from its own argument
OwnValues(c) ==
  /\ calls[c].probabilities # <<>> =>
       calls[c].probabilities = calculateSegmentProbabilities(calls[c].signals)
  /\ calls[c].primarySegment # "" =>
       calls[c].primarySegment = selectPrimarySegment(loadMOHDConfiguration, calls[c].probabilities)
  /\ calls[c].confidence # <<>> =>
       calls[c].confidence[1] = Get(calls[c].probabilities, calls[c].primarySegment)

C17_ConcurrentSafety ==
  /\ \A c \in CallIds : Finished(c) => calls[c].out = Alone(c)
  /\ \A c \in CallIds : OwnValues(c)
  /\ \A c, d \in CallIds : c # d => calls[c].objects \cap calls[d].objects = {}
  /\ mohdConfig = loadMOHDConfiguration

\* two calls with different vectors, their steps interleaved (the second call created its
\* probabilities between the two allocations of the first), have returned different results
C17_Witness ==
  /\ calls[1].pc = "returned"
  /\ calls[2].pc = "returned"
  /\ calls[1].objects = {1, 3, 4}
  /\ calls[2].objects = {2, 5, 6}
  /\ calls[1].out.classification[1].primary_segment = "italian_heritage_advocate"
  /\ calls[2].out.classification[1].primary_segment = "luxury_project_planner"

(***************************************************************************)
(* C21: multi_room_navigation and return_visitor_pattern are accepted as   *)
(* boolean or number and used by truthiness only: any non-zero numeric     *)
(* value contributes exactly what true contributes (0.35 to the planner    *)
(* score, 0.2 to the readiness base, the 'Multi-room project exploration'  *)
(* factor), 0 contributes exactly what false contributes, and the          *)
(* magnitude of a numeric flag never scales its contribution.              *)
(***************************************************************************)
\* the boolean the claim gives a flag: true, or a number other than 0
ClaimedFlag(x) == IF x = True \/ (IsNumber(x) /\ x # Num(0, 1)) THEN True ELSE False

\* the boolean JavaScript's truthiness gives a flag
TruthinessFlag(x) == IF Flag(x) = Num(1, 1) THEN True ELSE False

\* the result is what the stated formulas give for the vector sig
ResultAsFor(sig) ==
  /\ \A i \in 1..4 :
       Get(Result.segment_probabilities, SegmentOrder[i]) = StatedProbability(sig, SegmentOrder[i])
  /\ Result.consultation_readiness_score = StatedReadiness(sig, Result.primary_segment)
  /\ ListsPassing(Result.classification_factors, StatedChecks(sig, Result.primary_segment))

WithFlags(sig, flag(_)) ==
  [k \in SignalKeys |-> IF k \in booleanSignals THEN flag(sig[k]) ELSE sig[k]]

FlagsByTruthiness ==
  (op = "validateSegmentClassification" /\ ValidVector(signals)) =>
    /\ status = "returned"
    /\ ResultAsFor(WithFlags(signals, TruthinessFlag))

\* a numeric flag 2 has counted as true: 0.2 in the readiness base, not 0.4
NumericFlagCountsOnce ==
  /\ ClassifyReturned
  /\ signals["return_visitor_pattern"] = Num(2, 1)
  /\ Result.primary_segment = "luxury_project_planner"
  /\ Result.consultation_readiness_score = Num(9, 10)

\* multi_room_navigation NaN has been accepted and has counted as false
NaNFlagCountsAsFalse ==
  /\ ClassifyReturned
  /\ signals["multi_room_navigation"] = NaN
  /\ signals["complete_project_interest"] = Num(1, 1)
  /\ signals["budget_premium_indicators"] = Num(1, 1)
  /\ Get(Result.segment_probabilities, "luxury_project_planner") = Num(65, 100)

(***************************************************************************)
(* C22: in every ClassificationResult whose primary_segment is not         *)
(* international_minimalist, confidence_score is at least that segment's   *)
(* own confidence threshold (0.75 heritage, 0.85 planner, 0.80             *)
(* hospitality); a confidence_score below the primary segment's threshold  *)
(* occurs only when primary_segment is international_minimalist.           *)
(***************************************************************************)
HasResult == status = "returned" /\ classification # <<>>

C22_ConfidenceMeetsThreshold ==
  /\ HasResult =>
       \/ Result.primary_segment = "international_minimalist"
       \/ /\ Result.primary_segment \in {"italian_heritage_advocate", "luxury_project_planner",
                                         "hospitality_professional"}
          /\ AtLeastHundredths(Result.confidence_score, StatedThreshold(Result.primary_segment))
  /\ (op = "selectPrimarySegment" /\ segment # "international_minimalist") =>
       AtLeastHundredths(Get(probabilitiesArg, segment), StatedThreshold(segment))

\* a planner result whose confidence is exactly the planner's threshold
C22_Witness ==
  /\ HasResult
  /\ Result.primary_segment = "luxury_project_planner"
  /\ Result.confidence_score = Num(85, 100)

\* a result below its primary segment's threshold: the fallback, although heritage scored 0.7025
C22_WitnessBelow ==
  /\ HasResult
  /\ Result.primary_segment = "international_minimalist"
  /\ ~AtLeastHundredths(Result.confidence_score, 70)
  /\ Get(Result.segment_probabilities, "italian_heritage_advocate") = Num(281, 400)

(***************************************************************************)
(* C23: whenever the primary segment's probability meets its own           *)
(* confidence threshold, classification_factors is non-empty;              *)
(* equivalently, an empty classification_factors occurs only in the        *)
(* fallback case (primary_segment international_minimalist with            *)
(* confidence_score below 0.70).  This holds for every vector classify     *)
(* accepts.                                                                *)
(***************************************************************************)
MeetsOwnThreshold ==
  AtLeastHundredths(Result.confidence_score, StatedThreshold(Result.primary_segment))

C23_FactorsWhenThresholdMet ==
  HasResult =>
    /\ MeetsOwnThreshold => Result.classification_factors # <<>>
    /\ Result.classification_factors = <<>> =>
         /\ Result.primary_segment = "international_minimalist"
         /\ ~AtLeastHundredths(Result.confidence_score, 70)

\* heritage is primary at 0.765 with two of its signals at the bounds 0.6 and 90 that add no
\* factor: the third signal alone gives the list its entry
C23_Witness ==
  /\ HasResult
  /\ Result.primary_segment = "italian_heritage_advocate"
  /\ Result.confidence_score = Num(765, 1000)
  /\ Len(Result.classification_factors) = 1

\* just below: 0.6, 0.6 and 120 score 0.72, the fallback is primary and the list is empty
C23_WitnessEmpty ==
  /\ HasResult
  /\ signals["designer_story_engagement"] = Num(3, 5)
  /\ signals["craftsmanship_content_focus"] = Num(3, 5)
  /\ signals["heritage_content_time"] = Num(120, 1)
  /\ Result.primary_segment = "international_minimalist"
  /\ Result.classification_factors = <<>>

(***************************************************************************)
(* C24: for every vector generateDemoSignals can produce for segment type  *)
(* 'heritage' or 'planner' (every value within the template's random       *)
(* range), classify succeeds without InvalidInput and returns the primary  *)
(* segment the type names: italian_heritage_advocate for 'heritage',       *)
(* luxury_project_planner for 'planner'.                                   *)
(***************************************************************************)
\* the handler has classified the vector generated for the type
DemoClassified(type) ==
  /\ PostClassify
  /\ passed
  /\ request[1].demo_mode = type
  /\ generated # <<>>
  /\ signals = generated[1]

DemoVectorsAccepted ==
  /\ DemoClassified("heritage") =>
       /\ status = "returned"
       /\ Result.primary_segment = "italian_heritage_advocate"
  /\ DemoClassified("planner") =>
       /\ status = "returned"
       /\ Result.primary_segment \in {"luxury_project_planner", "international_minimalist"}

\* a planner demo vector with both draws at 0.05 scores 0.848 for the planner and is
\* classified as the fallback
PlannerDemoFallsBack ==
  /\ DemoClassified("planner")
  /\ signals["complete_project_interest"] = Num(81, 100)
  /\ signals["budget_premium_indicators"] = Num(715, 1000)
  /\ Get(Result.segment_probabilities, "luxury_project_planner") = Num(848, 1000)
  /\ Result.primary_segment = "international_minimalist"

\* a planner demo vector with high draws is classified as the planner
PlannerDemoIsPlanner ==
  /\ DemoClassified("planner")
  /\ Result.primary_segment = "luxury_project_planner"

====
